---- MODULE Spec2Model ----
(***************************************************************************)
(* Model of the profile configuration store of src/core/config.py          *)
(* (classes Config and ConfigManager) and of the web layer's update        *)
(* handler in src/web/routes.py.                                           *)
(*                                                                         *)
(* Python values are modelled as tagged records so that int(), str.strip() *)
(* and the key-presence tests of Config.update act on them as the code     *)
(* does.  A text is a sequence of one-character strings.                   *)
(***************************************************************************)
EXTENDS Integers, Sequences, FiniteSets, TLC

VARIABLES
    env,      \* os.environ as seen by Config.__init__ (fixed once chosen)
    data,     \* ConfigManager.data : {"active_profile": ..., "profiles": {...}}
    config,   \* ConfigManager.config : the single live Config object
    file,     \* the content of configs/profiles.json
    last,     \* the most recent call on the manager and how it ended
    io,       \* position of the call in progress inside save_profiles
    up,       \* whether the process (the module-level ConfigManager) is running
    th        \* the calls that run at the same time, each with its position

vars == <<env, data, config, file, last, io, up, th>>

----------------------------------------------------------------------------
(* Python values                                                           *)

PyStr(chars) == [t |-> "str", s |-> chars, n |-> 0]
PyInt(k) == [t |-> "int", s |-> <<>>, n |-> k]
PyNone == [t |-> "none", s |-> <<>>, n |-> 0]

\* result of a conversion that may raise
Ok(v) == [ok |-> TRUE, val |-> v]
Raise == [ok |-> FALSE, val |-> PyNone]

IsSpace(c) == c = " "

RECURSIVE LStrip(_)
LStrip(s) ==
    IF s # <<>> /\ IsSpace(Head(s)) THEN LStrip(Tail(s)) ELSE s

RECURSIVE RStrip(_)
RStrip(s) ==
    IF s # <<>> /\ IsSpace(s[Len(s)]) THEN RStrip(SubSeq(s, 1, Len(s) - 1)) ELSE s

\* str.strip()
Strip(s) == RStrip(LStrip(s))

Digits == <<"0", "1", "2", "3", "4", "5", "6", "7", "8", "9">>

IsDigit(c) == \E i \in 1..Len(Digits) : Digits[i] = c

DigitVal(c) == (CHOOSE i \in 1..Len(Digits) : Digits[i] = c) - 1

RECURSIVE DigitsVal(_, _)
DigitsVal(s, acc) ==
    IF s = <<>> THEN acc ELSE DigitsVal(Tail(s), acc * 10 + DigitVal(Head(s)))

AllDigits(s) == s # <<>> /\ \A i \in 1..Len(s) : IsDigit(s[i])

\* int(text): surrounding whitespace and one sign are accepted
ParseInt(s) ==
    LET b == Strip(s)
        signed == b # <<>> /\ Head(b) \in {"-", "+"}
        d == IF signed THEN Tail(b) ELSE b
    IN  IF ~AllDigits(d) THEN Raise
        ELSE IF signed /\ Head(b) = "-" THEN Ok(PyInt(0 - DigitsVal(d, 0)))
        ELSE Ok(PyInt(DigitsVal(d, 0)))

\* int(v) for a Python value v
IntOf(v) ==
    CASE v.t = "int" -> Ok(v)
      [] v.t = "str" -> ParseInt(v.s)
      [] OTHER -> Raise

----------------------------------------------------------------------------
(* Config                                                                  *)

StrFields ==
    <<"OPENAI_API_KEY", "ANTHROPIC_API_KEY", "OPENAI_BASE_URL",
      "AZURE_API_VERSION", "BIG_MODEL", "MIDDLE_MODEL", "SMALL_MODEL">>

NumFields ==
    <<"MAX_TOKENS_LIMIT", "MIN_TOKENS_LIMIT", "REQUEST_TIMEOUT", "MAX_RETRIES">>

\* the keys of Config.to_dict, in the order Config.update tests them
ConfigFields == StrFields \o NumFields

FieldSet == {ConfigFields[i] : i \in 1..Len(ConfigFields)}

NumFieldSet == {NumFields[i] : i \in 1..Len(NumFields)}

\* the attribute of Config that holds a key of the profile dictionary
Attr(k) ==
    CASE k = "OPENAI_API_KEY" -> "openai_api_key"
      [] k = "ANTHROPIC_API_KEY" -> "anthropic_api_key"
      [] k = "OPENAI_BASE_URL" -> "openai_base_url"
      [] k = "AZURE_API_VERSION" -> "azure_api_version"
      [] k = "BIG_MODEL" -> "big_model"
      [] k = "MIDDLE_MODEL" -> "middle_model"
      [] k = "SMALL_MODEL" -> "small_model"
      [] k = "MAX_TOKENS_LIMIT" -> "max_tokens_limit"
      [] k = "MIN_TOKENS_LIMIT" -> "min_tokens_limit"
      [] k = "REQUEST_TIMEOUT" -> "request_timeout"
      [] k = "MAX_RETRIES" -> "max_retries"

\* dict.get(k, dflt)
Get(d, k, dflt) == IF k \in DOMAIN d THEN d[k] ELSE dflt

\* fallback literals of Config.__init__
LitHost == PyStr(<<"0", ".", "0", ".", "0", ".", "0">>)
LitLogLevel == PyStr(<<"I", "N", "F", "O">>)
LitBaseUrl ==
    PyStr(<<"h", "t", "t", "p", "s", ":", "/", "/", "a", "p", "i", ".", "o", "p",
            "e", "n", "a", "i", ".", "c", "o", "m", "/", "v", "1">>)
LitBigModel == PyStr(<<"g", "p", "t", "-", "4", "o">>)
LitSmallModel == PyStr(<<"g", "p", "t", "-", "4", "o", "-", "m", "i", "n", "i">>)
DefaultPort == 8082
DefaultMaxTokens == 4096
DefaultMinTokens == 100
DefaultTimeout == 90
DefaultRetries == 2

\* Config.__init__ : every setting read from the environment
\* (the environments of the model hold well-formed numbers)
ConfigInit(e) ==
    LET big == Get(e, "BIG_MODEL", LitBigModel)
    IN  [host |-> Get(e, "HOST", LitHost),
         port |-> IntOf(Get(e, "PORT", PyInt(DefaultPort))).val,
         log_level |-> Get(e, "LOG_LEVEL", LitLogLevel),
         openai_api_key |-> Get(e, "OPENAI_API_KEY", PyNone),
         anthropic_api_key |-> Get(e, "ANTHROPIC_API_KEY", PyNone),
         openai_base_url |-> Get(e, "OPENAI_BASE_URL", LitBaseUrl),
         azure_api_version |-> Get(e, "AZURE_API_VERSION", PyNone),
         big_model |-> big,
         middle_model |-> Get(e, "MIDDLE_MODEL", big),
         small_model |-> Get(e, "SMALL_MODEL", LitSmallModel),
         max_tokens_limit |-> IntOf(Get(e, "MAX_TOKENS_LIMIT", PyInt(DefaultMaxTokens))).val,
         min_tokens_limit |-> IntOf(Get(e, "MIN_TOKENS_LIMIT", PyInt(DefaultMinTokens))).val,
         request_timeout |-> IntOf(Get(e, "REQUEST_TIMEOUT", PyInt(DefaultTimeout))).val,
         max_retries |-> IntOf(Get(e, "MAX_RETRIES", PyInt(DefaultRetries))).val]

\* the numeric settings stored without int()
UpdateValue_NoInt(d, k) ==
    IF k = "MIDDLE_MODEL" THEN Ok(Get(d, "MIDDLE_MODEL", Get(d, "BIG_MODEL", PyNone)))
    ELSE Ok(d[k])

\* one line of Config.update: the value key k of d puts into its attribute
UpdateValue(d, k) ==
    IF k \in NumFieldSet THEN IntOf(d[k])
    ELSE IF k = "MIDDLE_MODEL" THEN Ok(Get(d, "MIDDLE_MODEL", Get(d, "BIG_MODEL", PyNone)))
    ELSE Ok(d[k])

\* whether the line of Config.update for key k assigns at all
UpdateTouches(d, k) == k \in DOMAIN d

\* Config.update, line by line from line i on: the attributes assigned before a
\* failing int() stay assigned
RECURSIVE UpdateFrom(_, _, _)
UpdateFrom(c, d, i) ==
    IF i > Len(ConfigFields) THEN [ok |-> TRUE, cfg |-> c]
    ELSE LET k == ConfigFields[i]
         IN  IF ~UpdateTouches(d, k) THEN UpdateFrom(c, d, i + 1)
             ELSE LET r == UpdateValue(d, k)
                  IN  IF ~r.ok THEN [ok |-> FALSE, cfg |-> c]
                      ELSE UpdateFrom([c EXCEPT ![Attr(k)] = r.val], d, i + 1)

ConfigUpdate(c, d) == UpdateFrom(c, d, 1)

\* Config.to_dict
ToDict(c) == [k \in FieldSet |-> c[Attr(k)]]

----------------------------------------------------------------------------
(* ConfigManager: the store and the durable document                       *)

DEFAULT == <<"d", "e", "f", "a", "u", "l", "t">>

NoProfiles == [n \in {} |-> ToDict(ConfigInit([k \in {} |-> PyNone]))]

\* ConfigManager.__init__ line 71
InitialData == [active_profile |-> DEFAULT, profiles |-> NoProfiles]

\* dict assignment  p[name] = snap
Put(p, name, snap) ==
    [n \in DOMAIN p \cup {name} |-> IF n = name THEN snap ELSE p[n]]

\* del p[name]  /  p.pop(name)
Remove(p, name) == [n \in DOMAIN p \ {name} |-> p[n]]

\* ConfigManager.get_active_profile_name
GetActiveProfileName(d) == Get(d, "active_profile", DEFAULT)

\* ConfigManager.get_all_profiles
GetAllProfiles(d) == Get(d, "profiles", NoProfiles)

\* The document json.dump emits for d, counted in the pieces it is written in:
\* the "active_profile" member and one member per profile.  json.dump followed
\* by json.load gives back the same dictionary for the values of the model
\* (texts, integers, None, dictionaries with text keys), so the document is
\* held as the dictionary it encodes.
DocSize(d) == 1 + Cardinality(DOMAIN GetAllProfiles(d))

NoFile == [exists |-> FALSE, doc |-> InitialData, written |-> 0]

\* open(profiles_path, "w"): the file exists and is empty
Opened(d) == [exists |-> TRUE, doc |-> d, written |-> 0]

\* save_profiles writing the active profile and no other
Written_OnlyActive(d) ==
    [exists |-> TRUE,
     doc |-> [d EXCEPT !.profiles =
                 [n \in {d.active_profile} \cap DOMAIN d.profiles |-> d.profiles[n]]],
     written |-> 2]

\* save_profiles run to its end: the whole document is in the file
Written(d) == [exists |-> TRUE, doc |-> d, written |-> DocSize(d)]

\* the file holds a whole JSON document
Complete(f) == f.exists /\ f.written = DocSize(f.doc)

\* json.load that also puts "default" where the document names no active profile
JsonLoad_FillsActive(f) ==
    IF "active_profile" \in DOMAIN f.doc THEN f.doc
    ELSE [k \in DOMAIN f.doc \cup {"active_profile"} |->
             IF k = "active_profile" THEN DEFAULT ELSE f.doc[k]]

\* json.load(f) of a whole document: the dictionary the document encodes
JsonLoad(f) == f.doc

\* ConfigManager.load_config on file f with live configuration c.
\* json.load raises on a text that is not a whole document and self.data
\* keeps its value; self.data["profiles"] raises KeyError after self.data has
\* been replaced; int() in Config.update raises with the earlier attributes
\* already assigned.
LoadConfig(f, c) ==
    IF ~Complete(f) THEN [ok |-> FALSE, data |-> InitialData, config |-> c]
    ELSE IF "profiles" \notin DOMAIN JsonLoad(f)
    THEN [ok |-> FALSE, data |-> JsonLoad(f), config |-> c]
    ELSE LET d == JsonLoad(f)
             active_profile_name == Get(d, "active_profile", DEFAULT)
             profile_data == Get(d.profiles, active_profile_name, [k \in {} |-> PyNone])
             u == ConfigUpdate(c, profile_data)
         IN  [ok |-> u.ok, data |-> d, config |-> u.cfg]

\* the default profile created with no settings in it
EnsureData_Empty(e, d) ==
    [d EXCEPT !.profiles = Put(d.profiles, DEFAULT, [k \in {} |-> PyNone])]

\* ConfigManager._ensure_config_exists, up to its call of save_profiles:
\* the dictionary to write when profiles.json is missing
EnsureData(e, d) ==
    [d EXCEPT !.profiles = Put(d.profiles, DEFAULT, ToDict(ConfigInit(e)))]

\* ConfigManager.__init__ in environment e with file f, every write succeeding
Construct(e, f) ==
    LET f1 == IF f.exists THEN f ELSE Written(EnsureData(e, InitialData))
        l == LoadConfig(f1, ConfigInit(e))
    IN  [ok |-> l.ok, data |-> l.data, config |-> l.config, file |-> f1]

----------------------------------------------------------------------------
(* The checks of the four operations: the error each raises, in code order *)

OK == "ok"
NotFound == "not found"
AlreadyExists == "already exists"
EmptyName == "New profile name cannot be empty"
RenameDefault == "Cannot rename the default profile"
DeleteDefault == "Cannot delete the default profile"
DeleteActive == "Cannot delete the active profile"
BadNumber == "invalid literal for int()"
WriteFailed == "OSError"
Running == "in save_profiles"
Interrupted == "process stopped"
BadDocument == "JSONDecodeError"
MissingKey == "KeyError"

\* the exception load_config ends with on file f, if any
LoadError(f, c) ==
    IF ~Complete(f) THEN BadDocument
    ELSE IF "profiles" \notin DOMAIN JsonLoad(f) THEN MissingKey
    ELSE IF ~LoadConfig(f, c).ok THEN BadNumber
    ELSE OK

\* save_profile lines 117-119: the snapshot stored for patch P
SaveProfileSnapshot(e, P) ==
    LET temp_config == ConfigUpdate(ConfigInit(e), P)
    IN  [ok |-> temp_config.ok, snap |-> ToDict(temp_config.cfg)]

SaveProfileError(e, d, name, P) ==
    IF SaveProfileSnapshot(e, P).ok THEN OK ELSE BadNumber

SaveProfileApply(e, d, name, P) ==
    [d EXCEPT !.profiles = Put(d.profiles, name, SaveProfileSnapshot(e, P).snap)]

\* the default check moved to the front of the checks
RenameError_DefaultFirst(d, old_name, new_name) ==
    IF old_name = DEFAULT THEN RenameDefault
    ELSE IF old_name \notin DOMAIN d.profiles THEN NotFound
    ELSE IF new_name \in DOMAIN d.profiles THEN AlreadyExists
    ELSE IF Strip(new_name) = <<>> THEN EmptyName
    ELSE OK

\* rename_profile lines 127-134
RenameError(d, old_name, new_name) ==
    IF old_name \notin DOMAIN d.profiles THEN NotFound
    ELSE IF new_name \in DOMAIN d.profiles THEN AlreadyExists
    ELSE IF Strip(new_name) = <<>> THEN EmptyName
    ELSE IF old_name = DEFAULT THEN RenameDefault
    ELSE OK

\* the snapshot copied to the new name and left under the old one
RenameApply_Copy(d, old_name, new_name) ==
    [d EXCEPT !.profiles = Put(d.profiles, new_name, d.profiles[old_name])]

\* rename_profile lines 137-141
RenameApply(d, old_name, new_name) ==
    LET moved == Put(Remove(d.profiles, old_name), new_name, d.profiles[old_name])
    IN  IF "active_profile" \in DOMAIN d /\ d.active_profile = old_name
        THEN [d EXCEPT !.profiles = moved, !.active_profile = new_name]
        ELSE [d EXCEPT !.profiles = moved]

\* the existence check left out
ActivateError_NoCheck(d, name) == OK

\* activate_profile lines 147-148
ActivateError(d, name) ==
    IF name \notin DOMAIN d.profiles THEN NotFound ELSE OK

\* activate_profile line 149: the key is set, and added when it is missing
ActivateApply(d, name) ==
    IF "active_profile" \in DOMAIN d
    THEN [d EXCEPT !.active_profile = name]
    ELSE [active_profile |-> name, profiles |-> d.profiles]

\* the active-profile check left out
DeleteError_NoActiveCheck(d, name) ==
    IF name \notin DOMAIN d.profiles THEN NotFound
    ELSE IF name = DEFAULT THEN DeleteDefault
    ELSE OK

\* the active-profile check made before the default check
DeleteError_ActiveFirst(d, name) ==
    IF name \notin DOMAIN d.profiles THEN NotFound
    ELSE IF name = GetActiveProfileName(d) THEN DeleteActive
    ELSE IF name = DEFAULT THEN DeleteDefault
    ELSE OK

\* delete_profile lines 155-160
DeleteError(d, name) ==
    IF name \notin DOMAIN d.profiles THEN NotFound
    ELSE IF name = DEFAULT THEN DeleteDefault
    ELSE IF name = GetActiveProfileName(d) THEN DeleteActive
    ELSE OK

\* the deletion also makes "default" the active profile
DeleteApply_ResetActive(d, name) ==
    [d EXCEPT !.profiles = Remove(d.profiles, name), !.active_profile = DEFAULT]

\* delete_profile line 162
DeleteApply(d, name) == [d EXCEPT !.profiles = Remove(d.profiles, name)]

----------------------------------------------------------------------------
(* Inputs of the model                                                     *)

\* the most profiles the store holds in the model
MaxProfiles == 3

NameA == <<"a">>
NameB == <<"b">>
Blank == <<" ">>

\* the names the operations are called with
Names == {DEFAULT, NameA, NameB, Blank}

NoPatch == [k \in {} |-> PyNone]

ModelM == PyStr(<<"m">>)
ModelN == PyStr(<<"n">>)

\* the partial field maps save_profile is called with
Patches ==
    {NoPatch,
     [BIG_MODEL |-> ModelM, MAX_RETRIES |-> PyStr(<<"7">>)],
     [SMALL_MODEL |-> ModelN, MAX_TOKENS_LIMIT |-> PyStr(<<"x">>)]}

\* the environments the process may be started in
Envs ==
    {[k \in {} |-> PyNone],
     [MIDDLE_MODEL |-> ModelN, MAX_RETRIES |-> PyStr(<<"5">>)]}

----------------------------------------------------------------------------
(* The operations, each run from call to return with writes that succeed   *)

Call(op, name, new_name, P, result) ==
    [op |-> op, name |-> name, new_name |-> new_name, patch |-> P, result |-> result]

NoCall == Call("start", <<>>, <<>>, NoPatch, OK)

\* no call is inside save_profiles
Idle ==
    [phase |-> "idle", reload |-> FALSE,
     data |-> InitialData, file |-> NoFile, faults |-> 0]

\* a thread that is in no method of the manager.  A thread in a method holds
\* the method's arguments and local variables: snap is to_dict() of the
\* temp_config of save_profile or the profile_data of load_config, i the
\* number of assignments Config.update has made.
IdleThread ==
    [pc |-> "idle", op |-> "none", name |-> <<>>, patch |-> NoPatch,
     snap |-> NoPatch, i |-> 0, result |-> OK]

\* no thread is in a method.  Once two calls have been made at the same time,
\* before and pre are self.data and the settings of self.config as they were
\* when the calls were made, seen the settings a reader found meanwhile.
NoThreads ==
    [t1 |-> IdleThread, t2 |-> IdleThread, forked |-> FALSE,
     before |-> InitialData, pre |-> NoPatch, seen |-> NoPatch, observed |-> FALSE]

\* save_profile line 122 / activate_profile line 151: whether load_config follows
SaveReloads(d, name) == name = GetActiveProfileName(d)

\* activate_profile without its load_config
ActivateReloads_Never(d, name) == FALSE

ActivateReloads(d, name) == TRUE

\* save_profiles, then load_config when the operation calls it
Commit(d, c, reload) ==
    LET f == Written(d)
        l == LoadConfig(f, c)
    IN  [file |-> f,
         data |-> IF reload THEN l.data ELSE d,
         config |-> IF reload THEN l.config ELSE c,
         result |-> IF reload /\ ~l.ok THEN BadDocument ELSE OK]

Fits(d) == Cardinality(DOMAIN d.profiles) <= MaxProfiles

\* an operation that raised in its checks, or ran to its end on dictionary d
Return(op, name, new_name, P, err, d, reload) ==
    /\ up /\ io.phase = "idle"
    /\ Fits(d)
    /\ IF err # OK
       THEN /\ UNCHANGED <<data, config, file>>
            /\ last' = Call(op, name, new_name, P, err)
       ELSE LET r == Commit(d, config, reload)
            IN  /\ data' = r.data
                /\ config' = r.config
                /\ file' = r.file
                /\ last' = Call(op, name, new_name, P, r.result)
    /\ UNCHANGED <<env, io, up, th>>

SaveProfile(name, P) ==
    LET err == SaveProfileError(env, data, name, P)
        d == IF err = OK THEN SaveProfileApply(env, data, name, P) ELSE data
    IN  Return("save_profile", name, <<>>, P, err, d, SaveReloads(d, name))

RenameProfile(old_name, new_name) ==
    LET err == RenameError(data, old_name, new_name)
        d == IF err = OK THEN RenameApply(data, old_name, new_name) ELSE data
    IN  Return("rename_profile", old_name, new_name, NoPatch, err, d, FALSE)

ActivateProfile(name) ==
    LET err == ActivateError(data, name)
        d == IF err = OK THEN ActivateApply(data, name) ELSE data
    IN  Return("activate_profile", name, <<>>, NoPatch, err, d, ActivateReloads(d, name))

DeleteProfile(name) ==
    LET err == DeleteError(data, name)
        d == IF err = OK THEN DeleteApply(data, name) ELSE data
    IN  Return("delete_profile", name, <<>>, NoPatch, err, d, FALSE)

\* the process started with no profiles.json: the store is synthesized
Init ==
    /\ env \in Envs
    /\ LET m == Construct(env, NoFile)
       IN  /\ data = m.data
           /\ config = m.config
           /\ file = m.file
    /\ last = NoCall
    /\ io = Idle
    /\ up = TRUE
    /\ th = NoThreads

Next ==
    \/ \E name \in Names, P \in Patches : SaveProfile(name, P)
    \/ \E old_name \in Names, new_name \in Names : RenameProfile(old_name, new_name)
    \/ \E name \in Names : ActivateProfile(name)
    \/ \E name \in Names : DeleteProfile(name)

Spec == Init /\ [][Next]_vars

----------------------------------------------------------------------------
(* Properties of the store under the operations run one at a time          *)

\* a name that is empty or holds only whitespace
IsBlank(name) == \A i \in 1..Len(name) : name[i] = " "

\* C1: after every step of any sequence of save_profile, rename_profile,
\* activate_profile and delete_profile calls on a freshly synthesized store,
\* "default" is a profile and active_profile names a profile of the map.
C1_DefaultAndActiveExist ==
    /\ DEFAULT \in DOMAIN data.profiles
    /\ "active_profile" \in DOMAIN data
    /\ data.active_profile \in DOMAIN data.profiles

\* C1 witness: the active profile has just been renamed
C1_Witness ==
    /\ last.op = "rename_profile"
    /\ last.result = OK
    /\ data.active_profile = last.new_name

\* C2: every key of the profiles map is non-empty after trimming whitespace
\* (save_profile never adds an empty or whitespace-only name).
C2_NamesNotBlank == \A n \in DOMAIN data.profiles : ~IsBlank(n)

\* C3 as stated: in every reachable state rename_profile("default", X) fails
\* with "Cannot rename the default profile" for every X and
\* delete_profile("default") fails with "Cannot delete the default profile".
C3_Original ==
    /\ \A X \in Names : RenameError(data, DEFAULT, X) = RenameDefault
    /\ DeleteError(data, DEFAULT) = DeleteDefault

\* C3 amended: in every reachable state rename_profile("default", X) fails for
\* every X: with "already exists" when X is a profile of the map ("default"
\* included), else with "New profile name cannot be empty" when X is blank,
\* else with "Cannot rename the default profile"; delete_profile("default")
\* fails with "Cannot delete the default profile" whether or not it is active.
C3_DefaultProtected ==
    /\ \A X \in Names :
          RenameError(data, DEFAULT, X) =
             IF X \in DOMAIN data.profiles THEN AlreadyExists
             ELSE IF IsBlank(X) THEN EmptyName
             ELSE RenameDefault
    /\ DeleteError(data, DEFAULT) = DeleteDefault
    /\ (last.op \in {"rename_profile", "delete_profile"} /\ last.name = DEFAULT
          => last.result # OK)

\* C3 witness: renaming "default" was refused as protected in a store that
\* holds other profiles
C3_Witness ==
    /\ last.op = "rename_profile"
    /\ last.name = DEFAULT
    /\ last.result = RenameDefault
    /\ Cardinality(DOMAIN data.profiles) > 1

\* C4 as stated: for every existing profile n, delete_profile(n) fails with
\* "Cannot delete the active profile" iff n is the active profile, "default"
\* included.
C4_Original ==
    \A n \in DOMAIN data.profiles :
        (DeleteError(data, n) = DeleteActive) <=> (n = data.active_profile)

\* C4 amended: for every existing profile n other than "default",
\* delete_profile(n) fails with "Cannot delete the active profile" iff n is the
\* active profile; delete_profile("default") fails with "Cannot delete the
\* default profile" also when "default" is active.
C4_ActiveDeletionGuard ==
    /\ \A n \in DOMAIN data.profiles \ {DEFAULT} :
          (DeleteError(data, n) = DeleteActive) <=> (n = data.active_profile)
    /\ DeleteError(data, DEFAULT) = DeleteDefault
    /\ (last.op = "delete_profile" /\ last.result = DeleteActive
          => last.name = data.active_profile /\ last.name # DEFAULT)

\* C4 witness: deleting the active profile was refused
C4_Witness ==
    /\ last.op = "delete_profile"
    /\ last.result = DeleteActive

\* C7: after every successful operation the 11 dynamic fields of the resolved
\* configuration equal the active profile's snapshot and host, port and log
\* level are those of the environment; activate_profile(n) makes the resolved
\* configuration equal profiles[n].
C7_ResolvedIsActiveSnapshot ==
    last.result = OK =>
        /\ \A k \in FieldSet : config[Attr(k)] = data.profiles[data.active_profile][k]
        /\ config.host = Get(env, "HOST", LitHost)
        /\ config.port = IntOf(Get(env, "PORT", PyInt(DefaultPort))).val
        /\ config.log_level = Get(env, "LOG_LEVEL", LitLogLevel)
        /\ (last.op = "activate_profile" =>
               \A k \in FieldSet : config[Attr(k)] = data.profiles[last.name][k])

\* C7 witness: a profile that differs from "default" has just been activated
C7_Witness ==
    /\ last.op = "activate_profile"
    /\ last.result = OK
    /\ last.name # DEFAULT
    /\ data.profiles[last.name] # data.profiles[DEFAULT]

\* the call of this step is one the operation must refuse in its checks
RefusedCall(c, d) ==
    \/ /\ c.op = "rename_profile"
       /\ \/ c.name \notin DOMAIN d.profiles
          \/ c.new_name \in DOMAIN d.profiles
          \/ IsBlank(c.new_name)
          \/ c.name = DEFAULT
    \/ /\ c.op = "activate_profile"
       /\ c.name \notin DOMAIN d.profiles
    \/ /\ c.op = "delete_profile"
       /\ \/ c.name \notin DOMAIN d.profiles
          \/ c.name = DEFAULT
          \/ c.name = d.active_profile
    \/ /\ c.op = "save_profile"
       /\ \E k \in NumFieldSet \cap DOMAIN c.patch : ~IntOf(c.patch[k]).ok

\* C8: a call that fails in validation leaves the profiles map, active_profile,
\* the durable document and the resolved configuration as they were.
C8_RefusedCallChangesNothing ==
    [][RefusedCall(last', data) =>
          /\ last'.result # OK
          /\ data' = data
          /\ file' = file
          /\ config' = config]_vars

\* C8 witness: a save_profile with a non-numeric MAX_TOKENS_LIMIT was refused
\* in a store that holds other profiles
C8_Witness ==
    /\ last.op = "save_profile"
    /\ last.result = BadNumber
    /\ Cardinality(DOMAIN data.profiles) > 1

----------------------------------------------------------------------------
(* save_profile over every small partial field map                         *)

\* the most fields of a partial field map drawn from the value sets below
MaxPatchFields == 1

StrValues == {ModelM, PyNone}

NumValues == {PyInt(7), PyStr(<<" ", "4", "2">>), PyStr(<<"x">>), PyNone}

ValuesOf(k) == IF k \in NumFieldSet THEN NumValues ELSE StrValues

PatchesOn(S) ==
    {P \in [S -> StrValues \cup NumValues] : \A k \in S : P[k] \in ValuesOf(k)}

\* a map that gives every field, and one that gives both BIG_MODEL and MIDDLE_MODEL
FullPatch ==
    [k \in FieldSet |-> IF k \in NumFieldSet THEN PyStr(<<"1", "0">>) ELSE ModelM]

BigAndMiddle == [BIG_MODEL |-> ModelM, MIDDLE_MODEL |-> ModelN]

WidePatches ==
    UNION {PatchesOn(S) : S \in {T \in SUBSET FieldSet : Cardinality(T) <= MaxPatchFields}}
        \cup {FullPatch, BigAndMiddle}

NormNames == {DEFAULT, NameA}

\* a few operations on two names, then one save_profile with any of the maps
NextNorm ==
    /\ last.patch \in Patches
    /\ \/ \E name \in NormNames, P \in Patches \cup WidePatches : SaveProfile(name, P)
       \/ \E name \in NormNames : ActivateProfile(name)

SpecNorm == Init /\ [][NextNorm]_vars

\* the value a field has in a Config built from the environment alone
EnvDefault(e, k) == ConfigInit(e)[Attr(k)]

\* C5 as stated: after a save_profile(n, P) that returned, profiles[n] has all
\* 11 fields, each field of P with P's value and each other field with the
\* environment default.
C5_Original ==
    last.op = "save_profile" /\ last.result = OK =>
        /\ last.name \in DOMAIN data.profiles
        /\ DOMAIN data.profiles[last.name] = FieldSet
        /\ \A k \in FieldSet :
              data.profiles[last.name][k] =
                 IF k \in DOMAIN last.patch THEN last.patch[k] ELSE EnvDefault(env, k)

\* C5 amended: after a save_profile(n, P) that returned, profiles[n] has all 11
\* fields; each of the 7 text fields of P has P's value, each of the 4 numeric
\* fields of P has int() of P's value (an integer), and each field absent from
\* P has the environment default, whatever profiles[n] held before and
\* whichever profile is active.
C5_SnapshotNormalised ==
    last.op = "save_profile" /\ last.result = OK =>
        /\ last.name \in DOMAIN data.profiles
        /\ DOMAIN data.profiles[last.name] = FieldSet
        /\ \A k \in FieldSet :
              data.profiles[last.name][k] =
                 IF k \notin DOMAIN last.patch THEN EnvDefault(env, k)
                 ELSE IF k \in NumFieldSet THEN IntOf(last.patch[k]).val
                 ELSE last.patch[k]
        /\ \A k \in NumFieldSet :
              /\ data.profiles[last.name][k].t = "int"
              /\ (k \in DOMAIN last.patch /\ last.patch[k] = PyStr(<<" ", "4", "2">>)
                    => data.profiles[last.name][k] = PyInt(42))

\* C5 witness: a numeric field given as text was saved under a name that is
\* not the active profile
C5_Witness ==
    /\ last.op = "save_profile"
    /\ last.result = OK
    /\ last.name # data.active_profile
    /\ "MAX_TOKENS_LIMIT" \in DOMAIN last.patch
    /\ last.patch["MAX_TOKENS_LIMIT"].t = "str"

\* C6: when save_profile(n, P) is given BIG_MODEL but not MIDDLE_MODEL, the
\* stored MIDDLE_MODEL equals the BIG_MODEL of P.
C6_MiddleDefaultsToBig ==
    /\ last.op = "save_profile"
    /\ last.result = OK
    /\ "BIG_MODEL" \in DOMAIN last.patch
    /\ "MIDDLE_MODEL" \notin DOMAIN last.patch
    => data.profiles[last.name]["MIDDLE_MODEL"] = last.patch["BIG_MODEL"]

----------------------------------------------------------------------------
(* The operations with save_profiles taken step by step: open(path, "w")   *)
(* empties the file, json.dump fills it piece by piece, and a write may    *)
(* raise or the process may be stopped in between                          *)

IONames == {DEFAULT, NameA}

IOPatches == {NoPatch, [BIG_MODEL |-> ModelM, MAX_RETRIES |-> PyStr(<<"7">>)]}

\* the most failed writes and interruptions of one run of the model
MaxFaults == 1

MayFail == io.faults < MaxFaults

\* a call up to its save_profiles: the checks, the change of self.data, and
\* open(), which raises or leaves the file empty.  io keeps the dictionary and
\* the file as they were when the call was made.
Begin(op, name, new_name, P, err, d, reload, open_fails) ==
    /\ up /\ io.phase = "idle"
    /\ Fits(d)
    /\ IF err # OK
       THEN /\ ~open_fails
            /\ UNCHANGED <<data, file, io>>
            /\ last' = Call(op, name, new_name, P, err)
       ELSE /\ open_fails => MayFail
            /\ data' = d
            /\ io' = [phase |-> IF open_fails THEN "idle" ELSE "writing",
                      reload |-> reload, data |-> data, file |-> file,
                      faults |-> IF open_fails THEN io.faults + 1 ELSE io.faults]
            /\ file' = IF open_fails THEN file ELSE Opened(d)
            /\ last' = Call(op, name, new_name, P,
                            IF open_fails THEN WriteFailed ELSE Running)
    /\ UNCHANGED <<env, config, up, th>>

BeginSaveProfile(name, P, open_fails) ==
    LET err == SaveProfileError(env, data, name, P)
        d == IF err = OK THEN SaveProfileApply(env, data, name, P) ELSE data
    IN  Begin("save_profile", name, <<>>, P, err, d, SaveReloads(d, name), open_fails)

BeginRenameProfile(old_name, new_name, open_fails) ==
    LET err == RenameError(data, old_name, new_name)
        d == IF err = OK THEN RenameApply(data, old_name, new_name) ELSE data
    IN  Begin("rename_profile", old_name, new_name, NoPatch, err, d, FALSE, open_fails)

BeginActivateProfile(name, open_fails) ==
    LET err == ActivateError(data, name)
        d == IF err = OK THEN ActivateApply(data, name) ELSE data
    IN  Begin("activate_profile", name, <<>>, NoPatch, err, d,
              ActivateReloads(d, name), open_fails)

BeginDeleteProfile(name, open_fails) ==
    LET err == DeleteError(data, name)
        d == IF err = OK THEN DeleteApply(data, name) ELSE data
    IN  Begin("delete_profile", name, <<>>, NoPatch, err, d, FALSE, open_fails)

\* json.dump puts the next piece of the document into the file
WriteChunk ==
    /\ up /\ io.phase = "writing"
    /\ file.written < DocSize(file.doc)
    /\ file' = [file EXCEPT !.written = @ + 1]
    /\ UNCHANGED <<env, data, config, last, io, up, th>>

\* the file is closed whole; load_config follows when the operation calls it
FinishWrite ==
    /\ up /\ io.phase = "writing"
    /\ Complete(file)
    /\ LET l == LoadConfig(file, config)
       IN  /\ data' = IF io.reload THEN l.data ELSE data
           /\ config' = IF io.reload THEN l.config ELSE config
           /\ last' = [last EXCEPT
                          !.result = IF io.reload /\ ~l.ok THEN BadDocument ELSE OK]
    /\ io' = [Idle EXCEPT !.faults = io.faults]
    /\ UNCHANGED <<env, file, up, th>>

\* a write raises OSError: the exception leaves save_profiles and the operation
WriteError ==
    /\ up /\ io.phase = "writing"
    /\ ~Complete(file)
    /\ MayFail
    /\ last' = [last EXCEPT !.result = WriteFailed]
    /\ io' = [io EXCEPT !.phase = "idle", !.faults = @ + 1]
    /\ UNCHANGED <<env, data, config, file, up, th>>

\* the process is stopped inside save_profiles: what it held in memory is gone
Interrupt ==
    /\ up /\ io.phase = "writing"
    /\ MayFail
    /\ up' = FALSE
    /\ data' = InitialData
    /\ config' = ConfigInit(env)
    /\ io' = [io EXCEPT !.phase = "idle", !.faults = @ + 1]
    /\ last' = [last EXCEPT !.result = Interrupted]
    /\ UNCHANGED <<env, file, th>>

\* the process is started again: ConfigManager.__init__ on the file as it is.
\* The call is recorded with the name of the profile it created, if any; when
\* __init__ raises, the import fails and nothing of the manager remains.
Restart ==
    /\ ~up
    /\ LET m == Construct(env, file)
       IN  /\ up' = m.ok
           /\ data' = IF m.ok THEN m.data ELSE data
           /\ config' = IF m.ok THEN m.config ELSE config
           /\ file' = m.file
           /\ last' = Call("start", IF file.exists THEN <<>> ELSE DEFAULT, <<>>,
                           NoPatch, LoadError(m.file, ConfigInit(env)))
    /\ UNCHANGED <<env, io, th>>

NextIO ==
    \/ \E name \in IONames, P \in IOPatches, f \in BOOLEAN : BeginSaveProfile(name, P, f)
    \/ \E old_name \in IONames, new_name \in IONames \cup {NameB}, f \in BOOLEAN :
          BeginRenameProfile(old_name, new_name, f)
    \/ \E name \in IONames, f \in BOOLEAN : BeginActivateProfile(name, f)
    \/ \E name \in IONames, f \in BOOLEAN : BeginDeleteProfile(name, f)
    \/ WriteChunk
    \/ FinishWrite
    \/ WriteError
    \/ Interrupt
    \/ Restart

SpecIO == Init /\ [][NextIO]_vars

\* C9: a load that follows an interruption of save_profiles never sees a
\* half-written document: every start of the process finds a whole document
\* (the previous one or the new one) and loads it.
C9_StartFindsWholeDocument ==
    last.op = "start" => last.result = OK /\ Complete(file)

\* C10: when the write fails inside an operation, the operation reports the
\* failure, the document that was durable before is intact, and the profiles
\* map, active_profile and the resolved configuration are those from before
\* the call.
C10_FailedWriteChangesNothing ==
    last.result = WriteFailed =>
        /\ data = io.data
        /\ file = io.file
        /\ \A k \in FieldSet : config[Attr(k)] = io.data.profiles[io.data.active_profile][k]

----------------------------------------------------------------------------
(* Effects of rename_profile and delete_profile, and the durable document, *)
(* checked under Spec                                                      *)

\* C16: a rename_profile(old, new) that succeeds leaves new with exactly the
\* snapshot old had and old absent, every other profile as it was, the active
\* name equal to new when it was old and unchanged otherwise, the resolved
\* configuration untouched and the number of profiles the same.
C16_RenameMovesOneProfile ==
    [][last'.op = "rename_profile" /\ last'.result = OK =>
          LET old == last'.name
              new == last'.new_name
          IN  /\ old \in DOMAIN data.profiles
              /\ new \in DOMAIN data'.profiles
              /\ data'.profiles[new] = data.profiles[old]
              /\ old \notin DOMAIN data'.profiles
              /\ DOMAIN data'.profiles = (DOMAIN data.profiles \ {old}) \cup {new}
              /\ \A n \in DOMAIN data.profiles \ {old} :
                     data'.profiles[n] = data.profiles[n]
              /\ data'.active_profile =
                     IF data.active_profile = old THEN new ELSE data.active_profile
              /\ config' = config
              /\ Cardinality(DOMAIN data'.profiles) = Cardinality(DOMAIN data.profiles)
    ]_vars

\* the active profile, one of three, has just been renamed
C16_Witness ==
    /\ last.op = "rename_profile" /\ last.result = OK
    /\ data.active_profile = last.new_name
    /\ Cardinality(DOMAIN data.profiles) = 3

\* C17: delete_profile(n) on an existing n that is neither "default" nor the
\* active profile succeeds and removes exactly the key n: the other profiles,
\* the active name and the resolved configuration are unchanged and the
\* durable document shows the removal.  Once another profile has been
\* activated, the profile that was active can be deleted.
C17_DeleteRemovesOneProfile ==
    [][/\ (/\ last'.op = "delete_profile"
            /\ last'.name \in DOMAIN data.profiles
            /\ last'.name # DEFAULT
            /\ last'.name # data.active_profile) =>
              /\ last'.result = OK
              /\ DOMAIN data'.profiles = DOMAIN data.profiles \ {last'.name}
              /\ \A n \in DOMAIN data'.profiles : data'.profiles[n] = data.profiles[n]
              /\ data'.active_profile = data.active_profile
              /\ config' = config
              /\ Complete(file')
              /\ file'.doc.active_profile = data.active_profile
              /\ file'.doc.profiles = Remove(data.profiles, last'.name)
       /\ (/\ last'.op = "activate_profile" /\ last'.result = OK
            /\ data.active_profile \notin {DEFAULT, last'.name}) =>
              DeleteError(data', data.active_profile) = OK
    ]_vars

\* a profile has been deleted while another one, not "default", is active
C17_Witness ==
    /\ last.op = "delete_profile" /\ last.result = OK
    /\ last.name = NameA
    /\ last.name \notin DOMAIN data.profiles
    /\ data.active_profile = NameB

\* C20: after every operation that succeeds, run one at a time with writes
\* that succeed, the durable document is whole and holds the same active name
\* and the same mapping of names to snapshots as the store in memory.
C20_DocumentEqualsStore ==
    last.result = OK =>
        /\ Complete(file)
        /\ file.doc.active_profile = data.active_profile
        /\ DOMAIN file.doc.profiles = DOMAIN data.profiles
        /\ \A n \in DOMAIN data.profiles : file.doc.profiles[n] = data.profiles[n]

\* the active profile has been renamed while three profiles are stored
C20_Witness ==
    /\ last.op = "rename_profile" /\ last.result = OK
    /\ last.new_name = data.active_profile
    /\ last.name = NameA
    /\ Cardinality(DOMAIN file.doc.profiles) = 3

----------------------------------------------------------------------------
(* Start of the process on the file as it is found: no file, a document    *)
(* the manager wrote, or one edited by hand                                *)

StartNames == {DEFAULT, NameA}

\* the snapshots found in a document: whole ones, one with a few settings,
\* one with a number that is no number, one with nothing
DocSnaps ==
    {ToDict(ConfigInit(e)) : e \in Envs}
    \cup {[ToDict(ConfigInit([k \in {} |-> PyNone])) EXCEPT !.BIG_MODEL = ModelM],
          [BIG_MODEL |-> ModelM, MAX_RETRIES |-> PyInt(7)],
          [MAX_RETRIES |-> PyStr(<<"x">>)],
          NoPatch}

ProfileMaps == UNION {[S -> DocSnaps] : S \in SUBSET StartNames}

\* the dictionaries a document encodes: with both keys, with one, with none
Docs ==
    {[active_profile |-> a, profiles |-> p] :
        a \in StartNames \cup {NameB}, p \in ProfileMaps}
    \cup {[profiles |-> p] : p \in ProfileMaps}
    \cup {[active_profile |-> a] : a \in StartNames}
    \cup {NoPatch}

\* the files the process is started on: none, a whole document, a cut one
StartFiles ==
    {NoFile} \cup {Written(d) : d \in Docs}
             \cup {Opened([active_profile |-> DEFAULT, profiles |-> p]) :
                      p \in ProfileMaps \ {NoProfiles}}

\* the process is not running
InitStart ==
    /\ env \in Envs
    /\ file \in StartFiles
    /\ data = InitialData
    /\ config = ConfigInit(env)
    /\ last = Call("none", <<>>, <<>>, NoPatch, OK)
    /\ io = Idle
    /\ up = FALSE
    /\ th = NoThreads

\* save_profiles called right after the load_config of the start
SaveProfiles ==
    /\ up /\ io.phase = "idle"
    /\ last.op = "start"
    /\ file' = Written(data)
    /\ last' = Call("save_profiles", <<>>, <<>>, NoPatch, OK)
    /\ UNCHANGED <<env, data, config, io, up, th>>

NextStart ==
    \/ Restart
    \/ SaveProfiles

SpecStart == InitStart /\ [][NextStart]_vars

\* C14: a start with no durable document gives a store whose active name is
\* "default" and whose only profile is "default", with a snapshot equal to the
\* environment defaults in all 11 fields; the document is written before the
\* start is over, and the resolved configuration equals the environment
\* defaults.
C14_FreshStartSynthesizesDefault ==
    [][~up /\ ~file.exists /\ last'.op = "start" =>
          /\ up' /\ last'.result = OK
          /\ data'.active_profile = DEFAULT
          /\ DOMAIN data'.profiles = {DEFAULT}
          /\ DOMAIN data'.profiles[DEFAULT] = FieldSet
          /\ \A k \in FieldSet : data'.profiles[DEFAULT][k] = EnvDefault(env, k)
          /\ Complete(file') /\ file'.doc = data'
          /\ config' = ConfigInit(env)
    ]_vars

\* the process has started without a file and created "default"; the
\* environment sets two of the settings
C14_Witness ==
    /\ up /\ last.op = "start" /\ last.name = DEFAULT
    /\ "MAX_RETRIES" \in DOMAIN env
    /\ file.exists

\* a dictionary with both keys whose active name is one of its profiles
WellFormed(d) ==
    /\ "active_profile" \in DOMAIN d
    /\ "profiles" \in DOMAIN d
    /\ d.active_profile \in DOMAIN d.profiles

\* C15: loading an existing document that lacks "active_profile", lacks
\* "profiles", or names an active profile that is not among its profiles
\* fails: no start that succeeds has loaded such a document.
C15_CorruptDocumentRefused ==
    up /\ last.op = "start" => WellFormed(file.doc)

\* C18: save_profiles right after load_config, with no operation between,
\* leaves the durable document equal to the one that was loaded.
C18_SaveAfterLoadKeepsDocument ==
    [][last.op = "start" /\ last'.op = "save_profiles" =>
          /\ Complete(file) /\ Complete(file')
          /\ file'.doc = file.doc
    ]_vars

\* the store was saved after a load of a document that names no active
\* profile and holds two profiles
C18_Witness ==
    /\ last.op = "save_profiles"
    /\ "active_profile" \notin DOMAIN file.doc
    /\ Cardinality(DOMAIN file.doc.profiles) = 2

----------------------------------------------------------------------------
(* The handlers of the web layer (src/web/routes.py), each run from        *)
(* request to response                                                     *)

NewEmptyName == "Profile name cannot be empty."

\* the manager as a handler finds it
Before == [data |-> data, config |-> config, file |-> file, result |-> OK]

\* update_config, first call: save_profile(original_name, data) on the
\* manager b
SaveStep(e, b, original_name, P) ==
    IF SaveProfileError(e, b.data, original_name, P) # OK
    THEN [b EXCEPT !.result = SaveProfileError(e, b.data, original_name, P)]
    ELSE Commit(SaveProfileApply(e, b.data, original_name, P), b.config,
                SaveReloads(b.data, original_name))

\* the rename refused and the save undone with it
AfterRefusedRename_RollBack(b, s, err) == [b EXCEPT !.result = err]

\* rename_profile raises inside update_config: the handler answers with the
\* error, and what save_profile did to the manager s stays
AfterRefusedRename(b, s, err) == [s EXCEPT !.result = err]

\* update_config, second call: rename_profile(original_name, new_name) on the
\* manager s that the first call left, b being the manager before the request
RenameStep(b, s, original_name, new_name) ==
    IF RenameError(s.data, original_name, new_name) # OK
    THEN AfterRefusedRename(b, s, RenameError(s.data, original_name, new_name))
    ELSE Commit(RenameApply(s.data, original_name, new_name), s.config, FALSE)

\* update_config lines 35-45: the save, then the rename when the name differs;
\* the exception of either call ends the handler with status 400
UpdateConfig(original_name, new_name, P) ==
    /\ up /\ io.phase = "idle"
    /\ \E b \in {Before} :
       \E s \in {SaveStep(env, b, original_name, P)} :
       \E r \in {IF s.result # OK \/ original_name = new_name THEN s
                 ELSE RenameStep(b, s, original_name, new_name)} :
          /\ Fits(r.data)
          /\ data' = r.data
          /\ config' = r.config
          /\ file' = r.file
          /\ last' = Call("update_config", original_name, new_name, P, r.result)
    /\ UNCHANGED <<env, io, up, th>>

\* new_config lines 53-60: the checks of the handler
NewConfigError(d, profile_name) ==
    IF Strip(profile_name) = <<>> THEN NewEmptyName
    ELSE IF profile_name \in DOMAIN GetAllProfiles(d) THEN AlreadyExists
    ELSE OK

\* new_config: save_profile(profile_name, {}) once the checks have passed
NewConfig(profile_name) ==
    LET err == NewConfigError(data, profile_name)
        d == IF err = OK THEN SaveProfileApply(env, data, profile_name, NoPatch)
             ELSE data
    IN  Return("new_config", profile_name, <<>>, NoPatch, err, d,
               SaveReloads(d, profile_name))

\* the names the handlers are called with, and the settings of an update
WebNames == {DEFAULT, NameA, NameB}
WebPatches == Patches \ {NoPatch}

NextWeb ==
    \/ \E original_name \in {DEFAULT, NameA}, new_name \in WebNames \cup {Blank},
          P \in WebPatches :
          UpdateConfig(original_name, new_name, P)
    \/ \E profile_name \in WebNames \cup {Blank} : NewConfig(profile_name)
    \/ \E name \in WebNames : ActivateProfile(name)
    \/ \E name \in WebNames : DeleteProfile(name)

SpecWeb == Init /\ [][NextWeb]_vars

\* C19: an update whose save is accepted and whose rename is refused (the new
\* name differs and is taken or blank, or the original name is "default")
\* reports the error of the rename and keeps the save: the original name
\* holds the new snapshot, created if it did not exist, the other profiles and
\* the active name are as before, the document holds the store, the resolved
\* configuration follows the snapshot when the original name is active, and
\* "default" and the active profile exist.
C19_RefusedRenameKeepsSave ==
    [][LET n == last'.name
           new_name == last'.new_name
           P == last'.patch
           refused == /\ last'.op = "update_config"
                      /\ SaveProfileError(env, data, n, P) = OK
                      /\ n # new_name
                      /\ (new_name \in DOMAIN data.profiles \/ IsBlank(new_name)
                            \/ n = DEFAULT)
       IN  IF ~refused THEN TRUE
           ELSE /\ last'.result \in {AlreadyExists, EmptyName, RenameDefault}
                /\ DOMAIN data'.profiles = DOMAIN data.profiles \cup {n}
                /\ \A k \in FieldSet :
                      data'.profiles[n][k] =
                         IF k \notin DOMAIN P THEN EnvDefault(env, k)
                         ELSE IF k \in NumFieldSet THEN IntOf(P[k]).val
                         ELSE P[k]
                /\ \A m \in DOMAIN data.profiles \ {n} :
                      data'.profiles[m] = data.profiles[m]
                /\ data'.active_profile = data.active_profile
                /\ Complete(file') /\ file'.doc = data'
                /\ IF n = data.active_profile
                   THEN \A k \in FieldSet : config'[Attr(k)] = data'.profiles[n][k]
                   ELSE config' = config
                /\ DEFAULT \in DOMAIN data'.profiles
                /\ data'.active_profile \in DOMAIN data'.profiles
    ]_vars

\* an update of the active profile was refused at the rename to a taken name,
\* and the resolved configuration has the model the update carried
C19_Witness ==
    /\ last.op = "update_config" /\ last.result = AlreadyExists
    /\ last.name = data.active_profile
    /\ last.name # DEFAULT
    /\ "BIG_MODEL" \in DOMAIN last.patch
    /\ config.big_model = last.patch["BIG_MODEL"]

----------------------------------------------------------------------------
(* Two calls on the manager made from two threads.  ConfigManager takes no *)
(* lock, so the statements of the two calls interleave: the checks of a    *)
(* call, its change of self.data, save_profiles and load_config are each   *)
(* one step.  Each write of the file is taken whole.                       *)

ConcNames == {DEFAULT, NameA}
ConcPatches == {NoPatch, [BIG_MODEL |-> ModelM, MAX_RETRIES |-> PyStr(<<"7">>)]}

\* the calls of the first and of the second thread
Calls1 ==
    {[IdleThread EXCEPT !.pc = "called", !.op = "delete_profile", !.name = n] :
        n \in ConcNames}
    \cup {[IdleThread EXCEPT !.pc = "called", !.op = "save_profile", !.name = n,
                             !.patch = P] : n \in ConcNames, P \in ConcPatches}
Calls2 ==
    {[IdleThread EXCEPT !.pc = "called", !.op = "activate_profile", !.name = n] :
        n \in ConcNames}
    \cup {[IdleThread EXCEPT !.pc = "called", !.op = "save_profile", !.name = n,
                             !.patch = P] : n \in ConcNames, P \in ConcPatches}

\* both threads enter their methods
Fork(c1, c2) ==
    /\ up /\ io.phase = "idle" /\ ~th.forked
    /\ th' = [th EXCEPT !.t1 = c1, !.t2 = c2, !.forked = TRUE,
                        !.before = data, !.pre = ToDict(config)]
    /\ last' = Call("threads", <<>>, <<>>, NoPatch, Running)
    /\ UNCHANGED <<env, data, config, file, io, up>>

\* the exception the checks of call c raise on the dictionary d
CheckError(e, d, c) ==
    CASE c.op = "save_profile" -> SaveProfileError(e, d, c.name, c.patch)
      [] c.op = "activate_profile" -> ActivateError(d, c.name)
      [] c.op = "delete_profile" -> DeleteError(d, c.name)

\* thread t runs the checks of its method (save_profile: lines 117-119)
Check(t) ==
    /\ th[t].pc = "called"
    /\ \E err \in {CheckError(env, data, th[t])} :
          th' = [th EXCEPT ![t].pc = IF err = OK THEN "checked" ELSE "done",
                           ![t].result = err]
    /\ UNCHANGED <<env, data, config, file, last, io, up>>

\* thread t changes self.data (lines 120, 149, 162); del raises KeyError when
\* the key has gone since the check
Mutate(t) ==
    /\ th[t].pc = "checked"
    /\ IF th[t].op = "delete_profile" /\ th[t].name \notin DOMAIN data.profiles
       THEN /\ th' = [th EXCEPT ![t].pc = "done", ![t].result = MissingKey]
            /\ UNCHANGED data
       ELSE /\ th' = [th EXCEPT ![t].pc = "mutated"]
            /\ data' = CASE th[t].op = "save_profile" ->
                               SaveProfileApply(env, data, th[t].name, th[t].patch)
                          [] th[t].op = "activate_profile" ->
                               ActivateApply(data, th[t].name)
                          [] th[t].op = "delete_profile" ->
                               DeleteApply(data, th[t].name)
    /\ UNCHANGED <<env, config, file, last, io, up>>

\* whether load_config follows the save_profiles of call c (lines 122, 151)
Reloads(d, c) ==
    CASE c.op = "save_profile" -> SaveReloads(d, c.name)
      [] c.op = "activate_profile" -> ActivateReloads(d, c.name)
      [] c.op = "delete_profile" -> FALSE

\* thread t runs save_profiles: self.data as it is now goes into the file
Persist(t) ==
    /\ th[t].pc = "mutated"
    /\ file' = Written(data)
    /\ th' = [th EXCEPT ![t].pc = IF Reloads(data, th[t]) THEN "persisted" ELSE "done"]
    /\ UNCHANGED <<env, data, config, last, io, up>>

\* thread t runs load_config: self.data is replaced by what the file holds now
Reload(t) ==
    /\ th[t].pc = "persisted"
    /\ \E l \in {LoadConfig(file, config)} :
          /\ data' = l.data
          /\ config' = l.config
          /\ th' = [th EXCEPT ![t].pc = "done",
                              ![t].result = IF l.ok THEN OK ELSE BadNumber]
    /\ UNCHANGED <<env, file, last, io, up>>

NextConc ==
    \/ ~th.forked /\ \E name \in ConcNames, P \in ConcPatches : SaveProfile(name, P)
    \/ ~th.forked /\ \E name \in ConcNames : ActivateProfile(name)
    \/ \E c1 \in Calls1, c2 \in Calls2 : Fork(c1, c2)
    \/ \E t \in {"t1", "t2"} : Check(t)
    \/ \E t \in {"t1", "t2"} : Mutate(t)
    \/ \E t \in {"t1", "t2"} : Persist(t)
    \/ \E t \in {"t1", "t2"} : Reload(t)

SpecConc == Init /\ [][NextConc]_vars

\* both calls have returned
BothDone == th.forked /\ th.t1.pc = "done" /\ th.t2.pc = "done"

\* C11: delete_profile(n) and activate_profile(n), made at the same time for
\* an existing n that is neither "default" nor active, never both succeed,
\* and the active name they leave is the name of a stored profile.
C11_DeleteActivateExclusive ==
    (/\ BothDone
     /\ th.t1.op = "delete_profile" /\ th.t2.op = "activate_profile"
     /\ th.t1.name = th.t2.name
     /\ th.t1.name \in DOMAIN th.before.profiles
     /\ th.t1.name \notin {DEFAULT, th.before.active_profile}) =>
        /\ ~(th.t1.result = OK /\ th.t2.result = OK)
        /\ data.active_profile \in DOMAIN data.profiles

\* C12: two save_profile calls for different names, made at the same time,
\* both succeed, and both names are in get_all_profiles() and in the durable
\* document afterwards.
C12_NoInsertLost ==
    (/\ BothDone
     /\ th.t1.op = "save_profile" /\ th.t2.op = "save_profile"
     /\ th.t1.name # th.t2.name) =>
        /\ th.t1.result = OK /\ th.t2.result = OK
        /\ {th.t1.name, th.t2.name} \subseteq DOMAIN GetAllProfiles(data)
        /\ {th.t1.name, th.t2.name} \subseteq DOMAIN GetAllProfiles(file.doc)

----------------------------------------------------------------------------
(* A reader of the resolved configuration while a call runs load_config.   *)
(* Config.update assigns the attributes of the one live Config object one  *)
(* after the other, and the reader may run between two assignments.        *)

\* the calls that end in load_config
CallsReload ==
    {[IdleThread EXCEPT !.pc = "called", !.op = "activate_profile", !.name = n] :
        n \in ConcNames}
    \cup {[IdleThread EXCEPT !.pc = "called", !.op = "save_profile", !.name = n,
                             !.patch = P] : n \in ConcNames, P \in ConcPatches}

\* the reader: a thread that reads the settings of config_manager.config
Reader == [IdleThread EXCEPT !.pc = "called", !.op = "read"]

\* load_config lines 89-93 in thread t: self.data is replaced and the snapshot
\* of the active profile is looked up
LoadStep(t) ==
    /\ th[t].pc = "persisted"
    /\ data' = JsonLoad(file)
    /\ th' = [th EXCEPT ![t].pc = "updating", ![t].i = 1,
                        ![t].snap = Get(JsonLoad(file).profiles,
                                        Get(JsonLoad(file), "active_profile", DEFAULT),
                                        [k \in {} |-> PyNone])]
    /\ UNCHANGED <<env, config, file, last, io, up>>

\* one line of Config.update in thread t (lines 27-41)
UpdateStep(t) ==
    /\ th[t].pc = "updating"
    /\ \E k \in {ConfigFields[th[t].i]} :
          IF ~UpdateTouches(th[t].snap, k)
          THEN /\ UNCHANGED config
               /\ th' = [th EXCEPT ![t].i = @ + 1,
                                   ![t].pc = IF th[t].i = Len(ConfigFields)
                                             THEN "done" ELSE "updating"]
          ELSE \E r \in {UpdateValue(th[t].snap, k)} :
                  IF ~r.ok
                  THEN /\ UNCHANGED config
                       /\ th' = [th EXCEPT ![t].pc = "done", ![t].result = BadNumber]
                  ELSE /\ config' = [config EXCEPT ![Attr(k)] = r.val]
                       /\ th' = [th EXCEPT ![t].i = @ + 1,
                                           ![t].pc = IF th[t].i = Len(ConfigFields)
                                                     THEN "done" ELSE "updating"]
    /\ UNCHANGED <<env, data, file, last, io, up>>

\* the reader reads the 11 settings of the live Config object
Observe(t) ==
    /\ th[t].pc = "called" /\ th[t].op = "read"
    /\ th' = [th EXCEPT ![t].pc = "done", !.seen = ToDict(config), !.observed = TRUE]
    /\ UNCHANGED <<env, data, config, file, last, io, up>>

NextRead ==
    \/ ~th.forked /\ \E name \in ConcNames, P \in ConcPatches : SaveProfile(name, P)
    \/ ~th.forked /\ \E name \in ConcNames : ActivateProfile(name)
    \/ \E c \in CallsReload : Fork(c, Reader)
    \/ Check("t1")
    \/ Mutate("t1")
    \/ Persist("t1")
    \/ LoadStep("t1")
    \/ UpdateStep("t1")
    \/ Observe("t2")

SpecRead == Init /\ [][NextRead]_vars

\* C13: a reader of the resolved configuration that runs while
\* activate_profile, or save_profile on the active name, is under way finds
\* in the 11 fields either the values from before the call or the values the
\* call leaves, never some of each.
C13_ReaderSeesNoMix ==
    (/\ BothDone /\ th.observed
     /\ th.t1.result = OK
     /\ th.t1.name = data.active_profile) =>
        \/ th.seen = th.pre
        \/ th.seen = ToDict(config)

====
